---- MODULE Spec2Model ----
(***************************************************************************)
(* Tutorial.ipynb: the preprocessing pipeline over AirQualityUCI.csv.      *)
(* The notebook holds the pipeline twice: the Step 1-6 cells (lines        *)
(* 23-215, read_csv with the default ',' delimiter) and the consolidated   *)
(* cell (lines 240-297, read_csv with sep=';').  The kernel runs cells in  *)
(* document order and stops at the first cell that raises.                 *)
(*                                                                         *)
(* Numbers are exact rationals n/d; floating-point rounding is not         *)
(* modelled.  Library calls (pandas, scikit-learn) are modelled by their   *)
(* documented behaviour; where the outcome is not fixed by the             *)
(* documentation it is a nondeterministic choice.                          *)
(***************************************************************************)
EXTENDS Integers, Sequences, FiniteSets, TLC

\* Largest number of data rows of an input file.
MaxRows == 3

\* The literal of `data != -200`.
Sentinel == -200

----------------------------------------------------------------------------
\* Cell values.  k: "nan" (missing), "num" (the rational n/d), "str" (text s,
\* or the text s ++ " " ++ t), "ts" (timestamp parsed from date text s and
\* time text t), "sqrt" (the real sign(n) * sqrt(|n|/d)), "none" (a column
\* whose values were dropped).

NaN == [k |-> "nan", n |-> 0, d |-> 1, s |-> "", t |-> ""]

Num(x) == [k |-> "num", n |-> x, d |-> 1, s |-> "", t |-> ""]

Str(x) == [k |-> "str", n |-> 0, d |-> 1, s |-> x, t |-> ""]

Dropped == [k |-> "none", n |-> 0, d |-> 1, s |-> "", t |-> ""]

Abs(x) == IF x < 0 THEN -x ELSE x

RECURSIVE Gcd(_, _)
Gcd(a, b) == IF b = 0 THEN a ELSE Gcd(b, a % b)

\* n/d in lowest terms with a positive denominator (d # 0).
Rat(n, d) ==
    LET g  == Gcd(Abs(n), Abs(d))
        sg == IF d < 0 THEN -1 ELSE 1
    IN  [k |-> "num", n |-> (sg * n) \div g, d |-> (sg * d) \div g,
         s |-> "", t |-> ""]

RatAdd(a, b) == Rat(a.n * b.d + b.n * a.d, a.d * b.d)

RatSub(a, b) == Rat(a.n * b.d - b.n * a.d, a.d * b.d)

RatMul(a, b) == Rat(a.n * b.n, a.d * b.d)

RatDiv(a, b) == Rat(a.n * b.d, a.d * b.n)

RatLess(a, b) == a.n * b.d < b.n * a.d

RECURSIVE RatSum(_)
RatSum(vs) == IF vs = <<>> THEN Num(0) ELSE RatAdd(Head(vs), RatSum(Tail(vs)))

RECURSIVE RatMin(_)
RatMin(vs) ==
    IF Len(vs) = 1 THEN Head(vs)
    ELSE LET m == RatMin(Tail(vs)) IN IF RatLess(Head(vs), m) THEN Head(vs) ELSE m

RECURSIVE RatMax(_)
RatMax(vs) ==
    IF Len(vs) = 1 THEN Head(vs)
    ELSE LET m == RatMax(Tail(vs)) IN IF RatLess(m, Head(vs)) THEN Head(vs) ELSE m

IsNaN(v) == v.k = "nan"

----------------------------------------------------------------------------
\* Columns.

StdCols == <<"CO(GT)", "PT08.S1(CO)", "C6H6(GT)">>

MinMaxCols == <<"T", "RH", "AH">>

DerivedCols == <<"DateTime", "Hour", "Day">>

\* Header of the input file: the columns the notebook names plus one it
\* never touches.
FileCols ==
    <<"Date", "Time", "CO(GT)", "PT08.S1(CO)", "C6H6(GT)", "NOx(GT)", "T", "RH", "AH">>

Range(f) == {f[i] : i \in DOMAIN f}

\* The one column name read_csv yields when the delimiter argument is not
\* the delimiter of the file: the whole header line.
JoinedHeader(fsep) ==
    IF fsep = "," THEN "Date,Time,CO(GT),PT08.S1(CO),C6H6(GT),NOx(GT),T,RH,AH"
    ELSE "Date;Time;CO(GT);PT08.S1(CO);C6H6(GT);NOx(GT);T;RH;AH"

\* The present (non-missing) values of column c, in row order.
PresentVals(tbl, c) ==
    SelectSeq([i \in 1..Len(tbl) |-> tbl[i].cells[c]], LAMBDA v : ~IsNaN(v))

\* The table with column c set, row by row, to vs; c is added if absent.
SetCol(tbl, c, vs) ==
    [i \in 1..Len(tbl) |->
        [tbl[i] EXCEPT !.cells =
            [x \in (DOMAIN tbl[i].cells) \cup {c} |->
                IF x = c THEN vs[i] ELSE tbl[i].cells[x]]]]

----------------------------------------------------------------------------
\* Input files.

Row(date, co, pt, nox, tt) ==
    [c \in Range(FileCols) |->
        CASE c = "Date" -> date
          [] c = "Time" -> Str("18:00:00")
          [] c = "CO(GT)" -> co
          [] c = "PT08.S1(CO)" -> pt
          [] c = "C6H6(GT)" -> Num(5)
          [] c = "NOx(GT)" -> nox
          [] c = "T" -> tt
          [] c = "RH" -> Num(40)
          [] c = "AH" -> Num(1)]

GoodDate == Str("2004-03-10")

\* Rows that vary the imputed column and a sentinel in another column.
CleanRows ==
    {Row(GoodDate, co, pt, Num(7), Num(10)) :
        co \in {NaN, Num(Sentinel), Num(3)},
        pt \in {Num(Sentinel), Num(1100), Num(1200)}}

\* Rows that vary a min-max column and a sentinel in another column.
ScaleRows ==
    {Row(GoodDate, Num(2), pt, Num(7), tt) :
        tt \in {NaN, Num(10), Num(20), Num(30)},
        pt \in {Num(Sentinel), Num(1100)}}

\* Rows that vary the pass-through column and the date text.
OtherRows ==
    {Row(date, Num(2), Num(1100), nox, Num(10)) :
        date \in {GoodDate, Str("31/31/2004")},
        nox \in {Num(Sentinel), Num(7)}}

Tables(R) == UNION {[1..n -> R] : n \in 0..MaxRows}

InputFiles ==
    {[sep |-> fs, rows |-> rs] :
        fs \in {",", ";"},
        rs \in Tables(CleanRows) \cup Tables(ScaleRows) \cup Tables(OtherRows)}

----------------------------------------------------------------------------
VARIABLES
    file,     \* AirQualityUCI.csv: its delimiter and its data rows
    pass,     \* 1: the Step 1-6 cells, 2: the consolidated cell
    pc,       \* the stage about to run, or "done" / "aborted"
    cols,     \* data.columns
    data,     \* the DataFrame `data`: rows [idx, cells], idx the index label
    imputed,  \* history: `data` as the imputation left it
    clean,    \* history: `data` as the sentinel filter left it
    out,      \* AirQualityUCI_preprocessed.csv
    writes,   \* history: completed to_csv calls
    trace,    \* history: the stages invoked, with their outcome
    err       \* the exception that stopped the kernel, "" if none

vars == <<file, pass, pc, cols, data, imputed, clean, out, writes, trace, err>>

NoFile == [exists |-> FALSE, cols |-> <<>>, rows |-> <<>>]

Init ==
    /\ file \in InputFiles
    /\ pass \in {1, 2}
    /\ pc = "load"
    /\ cols = <<>>
    /\ data = <<>>
    /\ imputed = <<>>
    /\ clean = <<>>
    /\ out = NoFile
    /\ writes = 0
    /\ trace = <<>>
    /\ err = ""

\* Variant: the file is written before the charts are drawn.
StagesWriteBeforePlot ==
    <<"load", "impute", "filter", "standardize", "minmax", "derive", "write", "plot">>

\* The statements of one pipeline, in the order of the cell(s).
Stages ==
    <<"load", "impute", "filter", "standardize", "minmax", "derive", "plot", "write">>

StageAfter(st) ==
    LET i == CHOOSE j \in 1..Len(Stages) : Stages[j] = st
    IN  IF i = Len(Stages) THEN "end" ELSE Stages[i + 1]

\* The statement returns: the kernel goes on to the next statement, after the
\* last statement of the Step cells to the consolidated cell.
Advance(st) ==
    IF StageAfter(st) # "end" THEN pc' = StageAfter(st) /\ pass' = pass
    ELSE IF pass = 1 THEN pc' = "load" /\ pass' = 2
    ELSE pc' = "done" /\ pass' = pass

Invoked(st, ok) == trace' = Append(trace, [pass |-> pass, stage |-> st, ok |-> ok])

\* The statement raises: the cell stops, no later cell runs.
Raise(st, e) ==
    /\ pc' = "aborted"
    /\ err' = e
    /\ Invoked(st, FALSE)
    /\ UNCHANGED <<file, pass, cols, data, imputed, clean, out, writes>>

----------------------------------------------------------------------------
\* pd.read_csv

\* Variant: both cells read with the default delimiter.
SepArgDefault(p) == ","

SepArg(p) == IF p = 1 THEN "," ELSE ";"

ReadCsvCols(f, sp) == IF sp = f.sep THEN FileCols ELSE <<JoinedHeader(f.sep)>>

ReadCsv(f, sp) ==
    [i \in 1..Len(f.rows) |->
        [idx |-> i,
         cells |-> IF sp = f.sep THEN f.rows[i]
                   ELSE [c \in {JoinedHeader(f.sep)} |-> Str("line")]]]

Load ==
    /\ pc = "load"
    /\ cols' = ReadCsvCols(file, SepArg(pass))
    /\ data' = ReadCsv(file, SepArg(pass))
    /\ imputed' = <<>>
    /\ clean' = <<>>
    /\ Advance("load")
    /\ Invoked("load", TRUE)
    /\ UNCHANGED <<file, out, writes, err>>

LoadFail ==
    /\ pc = "load"
    /\ Raise("load", "IOError")

----------------------------------------------------------------------------
\* SimpleImputer(strategy='mean').fit_transform(data[['CO(GT)']])

\* Variant: the sentinel counts as missing when the mean is taken.
ColumnMeanOfValid(tbl, c) ==
    LET vs == SelectSeq(PresentVals(tbl, c), LAMBDA v : v # Num(Sentinel))
    IN  IF vs = <<>> THEN Num(0) ELSE RatDiv(RatSum(vs), Num(Len(vs)))

\* Variant: the total is divided by the number of rows, missing ones included.
ColumnMeanOverAllRows(tbl, c) == RatDiv(RatSum(PresentVals(tbl, c)), Num(Len(tbl)))

\* The mean of the present values of column c (at least one is present).
ColumnMean(tbl, c) ==
    LET vs == PresentVals(tbl, c) IN RatDiv(RatSum(vs), Num(Len(vs)))

SimpleImputerMean(tbl, c) ==
    SetCol(tbl, c, [i \in 1..Len(tbl) |->
        IF IsNaN(tbl[i].cells[c]) THEN ColumnMean(tbl, c) ELSE tbl[i].cells[c]])

\* Variant: an array of zero rows is not rejected.
ImputeRaisesKeyErrorOnly(cs, tbl) ==
    IF "CO(GT)" \notin Range(cs) THEN "KeyError" ELSE ""

\* data[['CO(GT)']] raises KeyError when the column is absent; the imputer
\* rejects an array of zero rows.
ImputeRaises(cs, tbl) ==
    IF "CO(GT)" \notin Range(cs) THEN "KeyError"
    ELSE IF Len(tbl) = 0 THEN "ValueError"
    ELSE ""

\* Rows exist and none has a value: the imputer raises nothing and returns
\* an array without the column.
NoObservedValue(cs, tbl) ==
    /\ ImputeRaises(cs, tbl) = ""
    /\ PresentVals(tbl, "CO(GT)") = <<>>

Impute ==
    /\ pc = "impute"
    /\ ImputeRaises(cols, data) = ""
    /\ ~NoObservedValue(cols, data)
    /\ data' = SimpleImputerMean(data, "CO(GT)")
    /\ imputed' = data'
    /\ Advance("impute")
    /\ Invoked("impute", TRUE)
    /\ UNCHANGED <<file, cols, clean, out, writes, err>>

ImputeFail ==
    /\ pc = "impute"
    /\ ImputeRaises(cols, data) # ""
    /\ Raise("impute", ImputeRaises(cols, data))

\* The column-less array is assigned to data['CO(GT)']: the assignment
\* either raises (shape mismatch) ...
ImputeAssignFail ==
    /\ pc = "impute"
    /\ NoObservedValue(cols, data)
    /\ Raise("impute", "ValueError")

\* ... or leaves the column without values, which the first stage that
\* reads the column as numbers rejects.  The stage is recorded as not
\* having completed: nothing was imputed.
ImputeDropsColumn ==
    /\ pc = "impute"
    /\ NoObservedValue(cols, data)
    /\ data' = SetCol(data, "CO(GT)", [i \in 1..Len(data) |-> Dropped])
    /\ imputed' = data'
    /\ Advance("impute")
    /\ Invoked("impute", FALSE)
    /\ UNCHANGED <<file, cols, clean, out, writes, err>>

----------------------------------------------------------------------------
\* data = data[(data != -200).all(axis=1)]

\* v != -200 is False only for a number equal to -200.
IsSentinel(v) == v.k = "num" /\ v.n = Sentinel * v.d

\* Variant: only the columns the notebook names are compared with -200.
KeepsRowNamedColumns(r) ==
    \A c \in Range(StdCols) \cup Range(MinMaxCols) : ~IsSentinel(r.cells[c])

KeepsRow(r) == \A c \in DOMAIN r.cells : ~IsSentinel(r.cells[c])

\* Variant: .any(axis=1) in place of .all(axis=1).
DropRowsAllSentinel(tbl) ==
    SelectSeq(tbl, LAMBDA r : \E c \in DOMAIN r.cells : ~IsSentinel(r.cells[c]))

DropSentinelRows(tbl) == SelectSeq(tbl, KeepsRow)

Filter ==
    /\ pc = "filter"
    /\ data' = DropSentinelRows(data)
    /\ clean' = data'
    /\ Advance("filter")
    /\ Invoked("filter", TRUE)
    /\ UNCHANGED <<file, cols, imputed, out, writes, err>>

----------------------------------------------------------------------------
\* StandardScaler().fit_transform / MinMaxScaler().fit_transform

\* A scale of zero is replaced by one (constant column).
HandleZerosInScale(x) == IF x.n = 0 THEN Num(1) ELSE x

\* Population variance of the present values of column c.
ColumnVar(tbl, c) ==
    LET vs == PresentVals(tbl, c)
        m  == ColumnMean(tbl, c)
        sq == [i \in 1..Len(vs) |-> RatMul(RatSub(vs[i], m), RatSub(vs[i], m))]
    IN  RatDiv(RatSum(sq), Num(Len(vs)))

\* (v - mean) / sqrt(var), kept as its signed square.
StandardScale(tbl, c, v) ==
    IF IsNaN(v) THEN NaN
    ELSE LET dv == RatSub(v, ColumnMean(tbl, c))
             q  == RatDiv(RatMul(dv, dv), HandleZerosInScale(ColumnVar(tbl, c)))
         IN  [k |-> "sqrt", n |-> IF dv.n < 0 THEN -q.n ELSE q.n, d |-> q.d,
              s |-> "", t |-> ""]

StandardScaler(tbl, c) ==
    SetCol(tbl, c, [i \in 1..Len(tbl) |-> StandardScale(tbl, c, tbl[i].cells[c])])

\* Variant: the minimum is not subtracted.
MinMaxScaleNoShift(tbl, c, v) ==
    IF IsNaN(v) THEN NaN
    ELSE LET vs == PresentVals(tbl, c)
         IN  RatDiv(v, HandleZerosInScale(RatSub(RatMax(vs), RatMin(vs))))

\* (v - min) / (max - min) over the present values of column c.
MinMaxScale(tbl, c, v) ==
    IF IsNaN(v) THEN NaN
    ELSE LET vs == PresentVals(tbl, c)
             lo == RatMin(vs)
             hi == RatMax(vs)
         IN  RatDiv(RatSub(v, lo), HandleZerosInScale(RatSub(hi, lo)))

MinMaxScaler(tbl, c) ==
    SetCol(tbl, c, [i \in 1..Len(tbl) |-> MinMaxScale(tbl, c, tbl[i].cells[c])])

\* Variant: a constant column makes the scalers raise.
ScalerRaisesOnConstant(tbl) ==
    \/ Len(tbl) = 0
    \/ \E i \in 1..Len(tbl) : tbl[i].cells["CO(GT)"].k = "none"
    \/ \E c \in Range(StdCols) \cup Range(MinMaxCols) :
        /\ PresentVals(tbl, c) # <<>>
        /\ RatMin(PresentVals(tbl, c)) = RatMax(PresentVals(tbl, c))

\* The scalers reject an array of zero rows, and an array cannot be built
\* from a column without values.
ScalerRaises(tbl) ==
    \/ Len(tbl) = 0
    \/ \E i \in 1..Len(tbl) : tbl[i].cells["CO(GT)"].k = "none"

Standardize ==
    /\ pc = "standardize"
    /\ ~ScalerRaises(data)
    /\ data' = StandardScaler(StandardScaler(StandardScaler(data,
                   StdCols[1]), StdCols[2]), StdCols[3])
    /\ Advance("standardize")
    /\ Invoked("standardize", TRUE)
    /\ UNCHANGED <<file, cols, imputed, clean, out, writes, err>>

ScaleFail ==
    /\ pc = "standardize"
    /\ ScalerRaises(data)
    /\ Raise("standardize", "ValueError")

MinMax ==
    /\ pc = "minmax"
    /\ data' = MinMaxScaler(MinMaxScaler(MinMaxScaler(data,
                   MinMaxCols[1]), MinMaxCols[2]), MinMaxCols[3])
    /\ Advance("minmax")
    /\ Invoked("minmax", TRUE)
    /\ UNCHANGED <<file, cols, imputed, clean, out, writes, err>>

----------------------------------------------------------------------------
\* pd.to_datetime(data['Date'] + ' ' + data['Time']), .dt.hour, .dt.day

Concat(a, b) == [k |-> "str", n |-> 0, d |-> 1, s |-> a.s, t |-> b.s]

\* Day of month of a date text, 0 when the text is no date.
DayOf(x) == CASE x = "2004-03-10" -> 10 [] x = "2004-03-11" -> 11 [] OTHER -> 0

\* Hour of a time text, -1 when the text is no time.
HourOf(x) == CASE x = "18:00:00" -> 18 [] x = "19:00:00" -> 19 [] OTHER -> -1

Parses(v) == v.k = "str" /\ DayOf(v.s) # 0 /\ HourOf(v.t) # -1

ToDatetime(v) == [k |-> "ts", n |-> 0, d |-> 1, s |-> v.s, t |-> v.t]

DateTimeText(r) == Concat(r.cells["Date"], r.cells["Time"])

\* Variant: the parsed timestamp also replaces the Date column.
DeriveColumnsOverDate(tbl) ==
    LET ts == [i \in 1..Len(tbl) |-> ToDatetime(DateTimeText(tbl[i]))]
    IN  SetCol(SetCol(SetCol(SetCol(tbl,
            "DateTime", ts),
            "Hour", [i \in 1..Len(tbl) |-> Num(HourOf(ts[i].t))]),
            "Day", [i \in 1..Len(tbl) |-> Num(DayOf(ts[i].s))]),
            "Date", ts)

DeriveColumns(tbl) ==
    LET ts == [i \in 1..Len(tbl) |-> ToDatetime(DateTimeText(tbl[i]))]
    IN  SetCol(SetCol(SetCol(tbl,
            "DateTime", ts),
            "Hour", [i \in 1..Len(tbl) |-> Num(HourOf(ts[i].t))]),
            "Day", [i \in 1..Len(tbl) |-> Num(DayOf(ts[i].s))])

Derive ==
    /\ pc = "derive"
    /\ \A i \in 1..Len(data) : Parses(DateTimeText(data[i]))
    /\ data' = DeriveColumns(data)
    /\ cols' = cols \o DerivedCols
    /\ Advance("derive")
    /\ Invoked("derive", TRUE)
    /\ UNCHANGED <<file, imputed, clean, out, writes, err>>

DeriveFail ==
    /\ pc = "derive"
    /\ \E i \in 1..Len(data) : ~Parses(DateTimeText(data[i]))
    /\ Raise("derive", "ValueError")

----------------------------------------------------------------------------
\* sns.histplot, sns.heatmap(data.corr()), plt.show()

Plot ==
    /\ pc = "plot"
    /\ Advance("plot")
    /\ Invoked("plot", TRUE)
    /\ UNCHANGED <<file, cols, data, imputed, clean, out, writes, err>>

\* data.corr() over a frame with text columns raises in the library
\* versions whose numeric_only default is False.
PlotFail ==
    /\ pc = "plot"
    /\ Raise("plot", "ValueError")

----------------------------------------------------------------------------
\* data.to_csv('AirQualityUCI_preprocessed.csv', index=False)

ToCsv(cs, tbl) ==
    [exists |-> TRUE, cols |-> cs, rows |-> [i \in 1..Len(tbl) |-> tbl[i].cells]]

Write ==
    /\ pc = "write"
    /\ out' = ToCsv(cols, data)
    /\ writes' = writes + 1
    /\ Invoked("write", TRUE)
    /\ Advance("write")
    /\ UNCHANGED <<file, cols, data, imputed, clean, err>>

\* The output path cannot be opened for writing.
WriteFail ==
    /\ pc = "write"
    /\ Raise("write", "OSError")

----------------------------------------------------------------------------
Next ==
    \/ Load
    \/ LoadFail
    \/ Impute
    \/ ImputeFail
    \/ ImputeAssignFail
    \/ ImputeDropsColumn
    \/ Filter
    \/ Standardize
    \/ ScaleFail
    \/ MinMax
    \/ Derive
    \/ DeriveFail
    \/ Plot
    \/ PlotFail
    \/ Write
    \/ WriteFail

Spec == Init /\ [][Next]_vars

----------------------------------------------------------------------------
\* Vocabulary of the properties.

\* Position in trace of the load that produced the current table, 0 if none.
LastLoad ==
    LET L == {i \in 1..Len(trace) : trace[i].stage = "load"}
    IN  IF L = {} THEN 0 ELSE CHOOSE i \in L : \A j \in L : j <= i

\* Stage st has completed on the current table.
Applied(st) ==
    /\ LastLoad > 0
    /\ \E i \in LastLoad..Len(trace) : trace[i].stage = st /\ trace[i].ok

\* The stage invoked last.
LastStage == IF trace = <<>> THEN "" ELSE trace[Len(trace)].stage

\* The CO(GT) entry of input row i.
InputCO(i) == file.rows[i]["CO(GT)"]

\* Input rows whose CO(GT) is present, their count and their total (the
\* input holds whole numbers).
PresentCO == {i \in 1..Len(file.rows) : InputCO(i).k = "num"}

RECURSIVE TotalCO(_)
TotalCO(S) ==
    IF S = {} THEN 0
    ELSE LET i == CHOOSE j \in S : TRUE IN InputCO(i).n + TotalCO(S \ {i})

IdxOf(tbl) == [i \in 1..Len(tbl) |-> tbl[i].idx]

MinusTwoHundred == Num(0 - 200)

HasMinusTwoHundred(r) == \E c \in DOMAIN r.cells : r.cells[c] = MinusTwoHundred

----------------------------------------------------------------------------
\* C1: once the Cleaner (impute CO(GT), then filter) has run, no remaining
\* row holds -200 in any column.
C1_NoSentinelAfterCleaner ==
    Applied("filter") =>
        \A i \in 1..Len(clean) : ~HasMinusTwoHundred(clean[i])

\* A row holding -200 only in the column the notebook never names was
\* removed, and a row remains.
C1_Witness ==
    /\ Applied("filter")
    /\ Len(clean) > 0
    /\ \E i \in 1..Len(imputed) :
        /\ imputed[i].cells["NOx(GT)"] = MinusTwoHundred
        /\ imputed[i].cells["CO(GT)"] # MinusTwoHundred
        /\ imputed[i].cells["PT08.S1(CO)"] # MinusTwoHundred
        /\ imputed[i].idx \notin Range(IdxOf(clean))

----------------------------------------------------------------------------
\* C2 as stated: a value substituted into CO(GT) never equals -200, and no
\* row is removed by the filter on account of its imputed CO(GT): a row whose
\* CO(GT) was missing and whose other columns hold no -200 survives.
C2_Original ==
    (Applied("impute") /\ Applied("filter")) =>
        \A i \in 1..Len(imputed) :
            InputCO(imputed[i].idx).k = "nan" =>
                /\ imputed[i].cells["CO(GT)"] # MinusTwoHundred
                /\ (\A c \in Range(FileCols) \ {"CO(GT)"} :
                        imputed[i].cells[c] # MinusTwoHundred)
                    => imputed[i].idx \in Range(IdxOf(clean))

\* C2 amended: the substituted value equals -200 exactly when the mean of
\* the present CO(GT) values, sentinels included, is -200; a row whose
\* CO(GT) was missing survives the filter exactly when that mean is not -200
\* and none of its other columns holds -200.
C2_ImputedSentinelIffMeanIsSentinel ==
    (Applied("impute") /\ Applied("filter")) =>
        \A i \in 1..Len(imputed) :
            InputCO(imputed[i].idx).k = "nan" =>
                LET meanIsSentinel ==
                        TotalCO(PresentCO) = (0 - 200) * Cardinality(PresentCO)
                IN  /\ (imputed[i].cells["CO(GT)"] = MinusTwoHundred) <=> meanIsSentinel
                    /\ (imputed[i].idx \in Range(IdxOf(clean))) <=>
                          /\ ~meanIsSentinel
                          /\ \A c \in Range(FileCols) \ {"CO(GT)"} :
                                imputed[i].cells[c] # MinusTwoHundred

\* A missing CO(GT) was filled with -200 and its row, clean elsewhere, removed.
C2_Witness ==
    /\ Applied("impute")
    /\ Applied("filter")
    /\ \E i \in 1..Len(imputed) :
        /\ InputCO(imputed[i].idx).k = "nan"
        /\ imputed[i].cells["CO(GT)"] = MinusTwoHundred
        /\ \A c \in Range(FileCols) \ {"CO(GT)"} : imputed[i].cells[c] # MinusTwoHundred
        /\ imputed[i].idx \notin Range(IdxOf(clean))

----------------------------------------------------------------------------
\* C3: after the impute operation CO(GT) has no missing entry, every entry
\* that was present is unchanged, and every entry that was missing holds the
\* mean of the entries present before substitution, over all loaded rows.
C3_ImputeFillsWithMean ==
    Applied("impute") =>
        /\ IdxOf(imputed) = [i \in 1..Len(file.rows) |-> i]
        /\ \A i \in 1..Len(imputed) :
            LET v == imputed[i].cells["CO(GT)"]
            IN  /\ v.k = "num"
                /\ v.d > 0
                /\ InputCO(i).k = "num" => v = InputCO(i)
                /\ InputCO(i).k = "nan" =>
                      v.n * Cardinality(PresentCO) = TotalCO(PresentCO) * v.d

\* A missing entry was filled with a mean that is no whole number and that
\* counts a row the filter will remove.
C3_Witness ==
    /\ Applied("impute")
    /\ \E i \in 1..Len(imputed) :
        /\ InputCO(i).k = "nan"
        /\ imputed[i].cells["CO(GT)"].d > 1
    /\ \E j \in PresentCO : InputCO(j) = MinusTwoHundred

----------------------------------------------------------------------------
\* C4: the filter removes exactly the rows in which some column equals -200
\* and keeps the others in their original order and unchanged.
C4_FilterRemovesExactlySentinelRows ==
    Applied("filter") =>
        /\ Range(IdxOf(clean)) =
              {imputed[i].idx : i \in {j \in 1..Len(imputed) : ~HasMinusTwoHundred(imputed[j])}}
        /\ \A i, j \in 1..Len(clean) : i < j => clean[i].idx < clean[j].idx
        /\ \A i \in 1..Len(clean) : \E j \in 1..Len(imputed) : clean[i] = imputed[j]

\* The three-row scenario: -200 in CO(GT), -200 in PT08.S1(CO), no -200;
\* only the third row remains.
C4_Witness ==
    /\ Applied("filter")
    /\ Len(file.rows) = 3
    /\ InputCO(1) = MinusTwoHundred
    /\ file.rows[2]["PT08.S1(CO)"] = MinusTwoHundred
    /\ InputCO(2) = Num(3)
    /\ ~\E c \in Range(FileCols) : file.rows[3][c] = MinusTwoHundred
    /\ IdxOf(clean) = <<3>>

----------------------------------------------------------------------------
\* The stages invoked by pipeline p (1: the Step cells, 2: the consolidated
\* cell), in order of invocation.
StagesOf(p) == SelectSeq(trace, LAMBDA e : e.pass = p)

WroteIn(p) == \E i \in 1..Len(trace) : trace[i] = [pass |-> p, stage |-> "write", ok |-> TRUE]

AllColumns ==
    {"Date", "Time", "CO(GT)", "PT08.S1(CO)", "C6H6(GT)", "NOx(GT)", "T", "RH", "AH",
     "DateTime", "Hour", "Day"}

----------------------------------------------------------------------------
\* Column c is constant over the present values of the rows of tbl.
Constant(tbl, c) ==
    /\ \E i \in 1..Len(tbl) : tbl[i].cells[c].k = "num"
    /\ \A i, j \in 1..Len(tbl) :
        (tbl[i].cells[c].k = "num" /\ tbl[j].cells[c].k = "num")
            => tbl[i].cells[c] = tbl[j].cells[c]

\* Some column of the standardization group has zero variance, or some
\* column of the min-max group has zero range, over the post-filter rows.
Degenerate ==
    \E c \in {"CO(GT)", "PT08.S1(CO)", "C6H6(GT)", "T", "RH", "AH"} : Constant(clean, c)

ZeroStd == [k |-> "sqrt", n |-> 0, d |-> 1, s |-> "", t |-> ""]

\* C6 as stated: with a zero-variance or zero-range column over the
\* post-filter rows the Scaler fails: neither scaling completes and no
\* output file is written by the run.
C6_Original ==
    (Applied("filter") /\ Degenerate) =>
        /\ ~Applied("standardize")
        /\ ~Applied("minmax")
        /\ ~Applied("write")

\* C6 amended: with a zero-variance or zero-range column over a non-empty
\* set of post-filter rows the Scaler does not fail; every present value of
\* such a column becomes 0 and the run goes on.  The Scaler stops the run
\* only when it is handed no usable rows.
C6_ConstantColumnScalesToZero ==
    /\ Applied("standardize") =>
        \A c \in {"CO(GT)", "PT08.S1(CO)", "C6H6(GT)"} :
            Constant(clean, c) =>
                \A i \in 1..Len(data) :
                    clean[i].cells[c].k = "num" => data[i].cells[c] = ZeroStd
    /\ Applied("minmax") =>
        \A c \in {"T", "RH", "AH"} :
            Constant(clean, c) =>
                \A i \in 1..Len(data) :
                    clean[i].cells[c].k = "num" => data[i].cells[c] = Num(0)
    /\ (pc = "aborted" /\ LastStage \in {"standardize", "minmax"}) =>
        \/ Len(clean) = 0
        \/ \E i \in 1..Len(clean) : clean[i].cells["CO(GT)"].k = "none"

\* Both scalings completed over two or more rows with a constant column in
\* each group, and the run went on to write the file.
C6_Witness ==
    /\ Applied("write")
    /\ Len(clean) >= 2
    /\ Constant(clean, "PT08.S1(CO)")
    /\ Constant(clean, "T")
    /\ \A i \in 1..Len(data) : data[i].cells["T"] = Num(0)

----------------------------------------------------------------------------
\* Zero present values in CO(GT) when imputation runs on the loaded table.
ZeroPresentAtImpute ==
    /\ LastLoad > 0
    /\ \E i \in LastLoad..Len(trace) : trace[i].stage = "impute"
    /\ cols # <<>>
    /\ "CO(GT)" \in Range(cols)
    /\ PresentCO = {}

----------------------------------------------------------------------------
\* The present values of column c over the post-filter rows.
CleanVals(c) == {clean[i].cells[c] : i \in {j \in 1..Len(clean) : clean[j].cells[c].k = "num"}}

Lowest(c) == CHOOSE lo \in CleanVals(c) : \A v \in CleanVals(c) : lo.n * v.d <= v.n * lo.d

Highest(c) == CHOOSE hi \in CleanVals(c) : \A v \in CleanVals(c) : v.n * hi.d <= hi.n * v.d

\* s = (v - lo) / (hi - lo), by cross-multiplication.
IsMinMaxOf(sc, v, lo, hi) ==
    /\ sc.k = "num"
    /\ sc.d > 0
    /\ sc.n * v.d * (hi.n * lo.d - lo.n * hi.d) = sc.d * hi.d * (v.n * lo.d - lo.n * v.d)

InUnitInterval(sc) == sc.k = "num" /\ sc.d > 0 /\ 0 <= sc.n /\ sc.n <= sc.d

----------------------------------------------------------------------------
\* C9: the written table has the input file's columns plus DateTime, Hour
\* and Day; in every surviving row every column other than the six scaled
\* ones and the three derived ones holds the value of the loaded input row;
\* no stage after the filter adds, removes or reorders rows.
C9_PassThroughUnchanged ==
    /\ Applied("filter") => IdxOf(data) = IdxOf(clean)
    /\ Applied("write") =>
        /\ out.cols = <<"Date", "Time", "CO(GT)", "PT08.S1(CO)", "C6H6(GT)", "NOx(GT)",
                        "T", "RH", "AH", "DateTime", "Hour", "Day">>
        /\ Len(out.rows) = Len(clean)
        /\ \A i \in 1..Len(out.rows) :
            /\ DOMAIN out.rows[i] = AllColumns
            /\ \A c \in {"Date", "Time", "NOx(GT)"} :
                out.rows[i][c] = file.rows[clean[i].idx][c]

\* A file was written after the filter removed a row.
C9_Witness ==
    /\ Applied("write")
    /\ Len(out.rows) >= 1
    /\ Len(out.rows) < Len(file.rows)

----------------------------------------------------------------------------
====
